---- MODULE Spec2Model ----
(***************************************************************************)
(* Model of the marketing-automation server (routes in                     *)
(* src/unnamed/part_002, MemStorage in src/unnamed/part_003) and of the    *)
(* image generator's client polling loop                                   *)
(* (src/client/src/components/image-generator.tsx, src/unnamed/part_008).  *)
(*                                                                         *)
(* Strings are sequences of one-character strings, so that the regular     *)
(* expressions, substring and replace calls of the code are computed.      *)
(* Identifiers (randomUUID, generateTaskId) are fresh positions 1, 2, ...   *)
(* in the insertion order of the Map that holds the record; 0 is null.     *)
(***************************************************************************)
EXTENDS Integers, Sequences, FiniteSets, TLC

VARIABLES
    brevoApi,        \* part_002:25  TRUE iff BREVO_API_KEY was set at start-up
    contacts,        \* MemStorage.contacts, in insertion order
    campaigns,       \* MemStorage.campaigns, in insertion order
    emailResults,    \* MemStorage.emailResults, in insertion order
    mailResp,        \* the last HTTP response of the contact/campaign routes
    uploadLog,       \* the accepted uploads so far: the rows read, the 200 response
    requested,       \* requested[c]: the contactIds campaign c was created from
    dispatched,      \* dispatched[c]: how many send requests for c returned 200
    outbox,          \* the sendTransacEmail calls made so far, in order
    statusLog,       \* statusLog[c]: the statuses the store has held for campaign c
    freepikKey,      \* TRUE iff process.env.FREEPIK_API_KEY is set
    openrouterKey,   \* TRUE iff process.env.OPENROUTER_API_KEY is set
    imageTaskCache,  \* part_002:40  the Map of ImageTask records, by task id
    polls,           \* the status-route handlers in flight: where each is suspended
    imgResp,         \* the last HTTP response of the image routes
    initCalls,       \* initCalls[t]: completion and image-submission calls made for t
    pollLog,         \* per handler the job as found at entry; the last status answer
    aiMessages,      \* MemStorage.aiMessages, in insertion order
    msgResp,         \* the last HTTP response of /api/ai-message
    merge,           \* one personalization: the template, the name, the result
    client           \* the ImageGenerator component: where handleGenerate stands

mailVars == <<brevoApi, contacts, campaigns, emailResults, mailResp, uploadLog,
              requested, dispatched, outbox, statusLog>>

imageVars == <<freepikKey, openrouterKey, imageTaskCache, polls, imgResp, initCalls,
               pollLog>>

messageVars == <<aiMessages, msgResp>>

vars == <<mailVars, imageVars, messageVars, merge, client>>

----------------------------------------------------------------------------
(* Bounds of the model *)

MaxContacts == 2
MaxRows == 2
MaxCampaigns == 2
MaxIdList == 2
MaxDispatch == 2
MaxTasks == 2
OneJob == 1
MaxInFlight == 2
MaxInit == 2
OneAtATime == 1
MaxMessages == 1

----------------------------------------------------------------------------
(* Strings *)

Alice == <<"A", "l">>
Empty == <<>>
GoodEmail == <<"a", "@", "b", ".", "c">>
NoTldEmail == <<"a", "@", "b">>

HiName == <<"H", "i", " ", "{", "n", "a", "m", "e", "}">>
Plain == <<"H", "i">>
NameToken == <<"{", "n", "a", "m", "e", "}">>

Range(s) == {s[i] : i \in 1..Len(s)}

\* Sequences over S of length lo..hi
SeqsOf(S, lo, hi) == UNION {[1..n -> S] : n \in lo..hi}

\* a || b of JavaScript on strings: the empty string is falsy
OrElse(a, b) == IF a # Empty THEN a ELSE b

\* /^[^\s@]+@[^\s@]+\.[^\s@]+$/.test(e)
NotSpaceOrAt(ch) == ch \notin {" ", "@"}

EmailRegexTest(e) ==
    \E i \in 1..Len(e), j \in 1..Len(e) :
        /\ e[i] = "@"
        /\ e[j] = "."
        /\ 1 < i
        /\ i + 1 < j
        /\ j < Len(e)
        /\ \A k \in (1..Len(e)) \ {i} : NotSpaceOrAt(e[k])

----------------------------------------------------------------------------
(* String.prototype.replace(/{name}/g, replacement) *)

SubSeqFrom(s, i) == SubSeq(s, i, Len(s))

\* The back quote and the quote characters
BackQuote == "backquote"
Quote == "quote"

MatchesAt(s, pat, i) ==
    /\ i + Len(pat) - 1 <= Len(s)
    /\ SubSeq(s, i, i + Len(pat) - 1) = pat

\* GetSubstitution of ECMAScript for a pattern without capture groups: in the
\* replacement text $$ is a dollar sign, $& the matched text, $ with a back
\* quote the text before the match and $ with a quote the text after it; any
\* other $ stands for itself.
RECURSIVE GetSubstitution(_, _, _, _, _)
GetSubstitution(repl, j, str, pos, mlen) ==
    IF j > Len(repl) THEN <<>>
    ELSE IF repl[j] = "$" /\ j < Len(repl) /\ repl[j + 1] = "$"
        THEN <<"$">> \o GetSubstitution(repl, j + 2, str, pos, mlen)
    ELSE IF repl[j] = "$" /\ j < Len(repl) /\ repl[j + 1] = "&"
        THEN SubSeq(str, pos, pos + mlen - 1)
                 \o GetSubstitution(repl, j + 2, str, pos, mlen)
    ELSE IF repl[j] = "$" /\ j < Len(repl) /\ repl[j + 1] = BackQuote
        THEN SubSeq(str, 1, pos - 1) \o GetSubstitution(repl, j + 2, str, pos, mlen)
    ELSE IF repl[j] = "$" /\ j < Len(repl) /\ repl[j + 1] = Quote
        THEN SubSeqFrom(str, pos + mlen)
                 \o GetSubstitution(repl, j + 2, str, pos, mlen)
    ELSE <<repl[j]>> \o GetSubstitution(repl, j + 1, str, pos, mlen)

\* The global replace: matches are found left to right in the original text
\* and do not overlap; the inserted text is not scanned again.
RECURSIVE ReplaceFrom(_, _, _, _)
ReplaceFrom(str, pat, repl, i) ==
    IF i > Len(str) THEN <<>>
    ELSE IF MatchesAt(str, pat, i)
        THEN GetSubstitution(repl, 1, str, i, Len(pat))
                 \o ReplaceFrom(str, pat, repl, i + Len(pat))
    ELSE <<str[i]>> \o ReplaceFrom(str, pat, repl, i + 1)

\* campaign.message.replace(/{name}/g, contact.name)
Personalize(template, name) == ReplaceFrom(template, NameToken, name, 1)

\* text.includes("{name}")
HasNameToken(text) == \E i \in 1..Len(text) : MatchesAt(text, NameToken, i)

----------------------------------------------------------------------------
(* MemStorage *)

NullId == 0

\* createManyContacts: every inserted record is stored as it was handed in
\* (isValid: insertContact.isValid ?? false)
CreateManyContacts(store, insertContacts) == store \o insertContacts

\* A validation that only asks for some email
ValidateNonEmpty(created) ==
    [i \in 1..Len(created) |-> [created[i] EXCEPT !.isValid = created[i].email # Empty]]

\* validateContacts: builds NEW records carrying the result of the regex test;
\* the records held in the Map are not touched
ValidateContacts(created) ==
    [i \in 1..Len(created) |->
        [created[i] EXCEPT !.isValid = EmailRegexTest(created[i].email)]]

\* getContactsByCampaign: ids of the contacts attached to campaign id, in the
\* Map's insertion order
RECURSIVE IdsWhere(_, _, _)
IdsWhere(store, keep, i) ==
    IF i > Len(store) THEN <<>>
    ELSE IF keep[i] THEN <<i>> \o IdsWhere(store, keep, i + 1)
    ELSE IdsWhere(store, keep, i + 1)

GetContactsByCampaign(store, id) ==
    IdsWhere(store, [i \in 1..Len(store) |-> store[i].campaignId = id], 1)

\* contacts.filter(c => c.isValid)
ValidContacts(store, id) ==
    IdsWhere(store,
             [i \in 1..Len(store) |-> store[i].campaignId = id /\ store[i].isValid],
             1)

\* getEmailResultsByCampaign
ResultsOf(results, id) == {i \in 1..Len(results) : results[i].campaignId = id}

----------------------------------------------------------------------------
(* POST /api/upload-contacts *)

\* req.file: absent, or a file whose first sheet has these rows
NoFile == [present |-> FALSE, rows |-> <<>>]
File(rows) == [present |-> TRUE, rows |-> rows]

\* The rows XLSX.utils.sheet_to_json yields: one object per non-blank row, with
\* a key only for a non-blank cell. A row is modelled by its Name and Email
\* cells, Empty standing for a blank cell (no such key).
RowKinds ==
    {[name |-> Alice, email |-> GoodEmail], [name |-> Alice, email |-> NoTldEmail],
     [name |-> Alice, email |-> Empty], [name |-> Empty, email |-> GoodEmail]}

SheetRows == SeqsOf(RowKinds, 0, MaxRows)

\* 'Name' in firstRow || 'name' in firstRow, and the same for Email
HasName(rows) == rows[1].name # Empty
HasEmail(rows) == rows[1].email # Empty

\* Rows without an email left out of the import
HasEmailCell(row) == row.email # Empty

ContactsOfRowsWithEmail(rows) ==
    LET kept == SelectSeq(rows, HasEmailCell)
    IN  [i \in 1..Len(kept) |->
            [name |-> OrElse(kept[i].name, Empty),
             email |-> kept[i].email,
             campaignId |-> NullId,
             isValid |-> FALSE]]

\* jsonData.map(row => ({name, email, campaignId: null, isValid: false}))
ContactsToInsert(rows) ==
    [i \in 1..Len(rows) |->
        [name |-> OrElse(rows[i].name, Empty),
         email |-> OrElse(rows[i].email, Empty),
         campaignId |-> NullId,
         isValid |-> FALSE]]

CountValid(validated) == Cardinality({i \in 1..Len(validated) : validated[i].isValid})

\* res.status(400).json({error}): the three rejections differ in the text only
UploadRejected == [route |-> "upload", code |-> 400]

UploadContacts(file) ==
    /\ IF ~file.present
         THEN /\ mailResp' = UploadRejected
              /\ UNCHANGED <<contacts, uploadLog>>
         ELSE IF Len(file.rows) = 0
         THEN /\ mailResp' = UploadRejected
              /\ UNCHANGED <<contacts, uploadLog>>
         ELSE IF ~HasName(file.rows) \/ ~HasEmail(file.rows)
         THEN /\ mailResp' = UploadRejected
              /\ UNCHANGED <<contacts, uploadLog>>
         ELSE LET created == ContactsToInsert(file.rows)
                  validated == ValidateContacts(created)
                  ids == [i \in 1..Len(created) |-> Len(contacts) + i]
              IN  /\ Len(contacts) + Len(file.rows) <= MaxContacts
                  /\ contacts' = CreateManyContacts(contacts, created)
                  /\ mailResp' = [route |-> "upload", code |-> 200,
                                  total |-> Len(validated),
                                  valid |-> CountValid(validated),
                                  invalid |-> Len(validated) - CountValid(validated),
                                  contactIds |-> ids]
                  /\ uploadLog' = Append(uploadLog,
                                    [rows |-> file.rows,
                                     contactIds |-> ids,
                                     isValid |-> [i \in 1..Len(validated) |->
                                                     validated[i].isValid]])
    /\ UNCHANGED <<brevoApi, campaigns, emailResults, requested, dispatched, outbox,
                   statusLog>>

----------------------------------------------------------------------------
(* POST /api/campaigns *)

Subjects == {HiName}
Messages == {HiName}

\* storage.createCampaign(campaignData)
NewCampaign(subject, message, contactIds) ==
    [subject |-> subject, message |-> message, totalContacts |-> Len(contactIds),
     sentCount |-> 0, failedCount |-> 0, status |-> "pending"]

\* The position of the first contact id updateContact throws on (unknown to the
\* store), or Len(contactIds) + 1 when every id is known.
FirstUnknown(store, contactIds) ==
    IF \A i \in 1..Len(contactIds) : contactIds[i] \in 1..Len(store)
        THEN Len(contactIds) + 1
        ELSE CHOOSE i \in 1..Len(contactIds) :
                /\ contactIds[i] \notin 1..Len(store)
                /\ \A k \in 1..(i - 1) : contactIds[k] \in 1..Len(store)

\* for (const contactId of contactIds) await storage.updateContact(contactId,
\* {campaignId}): the updates made before the first throw stay in the store
AttachContacts(store, contactIds, id) ==
    LET done == {contactIds[i] : i \in 1..(FirstUnknown(store, contactIds) - 1)}
    IN  [k \in 1..Len(store) |->
            IF k \in done THEN [store[k] EXCEPT !.campaignId = id] ELSE store[k]]

CreateCampaign(subject, message, contactIds) ==
    /\ Len(campaigns) < MaxCampaigns
    /\ LET id == Len(campaigns) + 1
           campaign == NewCampaign(subject, message, contactIds)
       IN  /\ campaigns' = Append(campaigns, campaign)
           /\ contacts' = AttachContacts(contacts, contactIds, id)
           /\ requested' = Append(requested, contactIds)
           /\ dispatched' = Append(dispatched, 0)
           /\ statusLog' = Append(statusLog, <<campaign.status>>)
           /\ mailResp' =
                IF FirstUnknown(contacts, contactIds) > Len(contactIds)
                    THEN [route |-> "create", code |-> 200, id |-> id]
                    ELSE [route |-> "create", code |-> 500, id |-> NullId]
    /\ UNCHANGED <<brevoApi, emailResults, uploadLog, outbox>>

----------------------------------------------------------------------------
(* POST /api/campaigns/:id/send *)

\* What one brevoApi.sendTransacEmail call does: it resolves, or rejects with
\* an Error, or rejects with a value that is no Error.
SendOutcomes == {"resolved", "Error", "nonError"}
ProviderMessage == "provider rejected the message"

\* error instanceof Error ? error.message : "Unknown error"
CaughtMessage(outcome) ==
    IF outcome = "Error" THEN ProviderMessage ELSE "Unknown error"

\* An off-by-one start of the counters
InitialTallyFromOne == [sent |-> 1, failed |-> 0]

\* let sentCount = 0; let failedCount = 0;
InitialTally == [sent |-> 0, failed |-> 0]

\* The arguments of sendTransacEmail for one recipient
EmailCall(campaign, id, contact) ==
    [campaignId |-> id,
     to |-> contact.email,
     subject |-> Personalize(campaign.subject, contact.name),
     textContent |-> Personalize(campaign.message, contact.name)]

\* storage.createEmailResult in the try block and in the catch block
EmailResult(id, contactId, contact, outcome) ==
    [campaignId |-> id, contactId |-> contactId, email |-> contact.email,
     status |-> IF outcome = "resolved" THEN "sent" ELSE "failed",
     error |-> IF outcome = "resolved" THEN "null" ELSE CaughtMessage(outcome)]

\* for (const contact of validContacts) { try { send; result sent; sentCount++ }
\* catch { result failed; failedCount++ } ; delay }: from recipient i on, with
\* the results, calls and tally so far in acc.
RECURSIVE SendLoop(_, _, _, _, _, _, _)
SendLoop(campaign, id, store, valid, outcomes, i, acc) ==
    IF i > Len(valid) THEN acc
    ELSE LET contact == store[valid[i]]
             sent == outcomes[i] = "resolved"
         IN  SendLoop(campaign, id, store, valid, outcomes, i + 1,
                 [results |-> Append(acc.results,
                                  EmailResult(id, valid[i], contact, outcomes[i])),
                  calls |-> Append(acc.calls, EmailCall(campaign, id, contact)),
                  sent |-> IF sent THEN acc.sent + 1 ELSE acc.sent,
                  failed |-> IF sent THEN acc.failed ELSE acc.failed + 1])

\* A final update that writes the counters and forgets the status
FinalUpdateCountersOnly(campaign, sent, failed) ==
    [campaign EXCEPT !.sentCount = sent, !.failedCount = failed]

\* storage.updateCampaign(id, {status: "completed", sentCount, failedCount})
FinalUpdate(campaign, sent, failed) ==
    [campaign EXCEPT !.status = "completed", !.sentCount = sent,
                     !.failedCount = failed]

\* A write of a campaign's status as the log of its statuses sees it: a
\* status different from the one held is a move
Logged(log, status) == IF log[Len(log)] = status THEN log ELSE Append(log, status)

\* The handler suspends only inside the loop (the provider call and the 100 ms
\* timer); its awaits on MemStorage resume in the same turn of the event loop.
\* With no valid contact attached the whole handler is one step.
\* A server that takes the provider for configured
AlwaysConfigured == FALSE

\* if (!brevoApi)
NotConfigured == ~brevoApi

SendCampaign(id) ==
    IF id \notin 1..Len(campaigns)
        THEN /\ mailResp' = [route |-> "send", code |-> 404, id |-> id]
             /\ UNCHANGED <<brevoApi, contacts, campaigns, emailResults, uploadLog,
                            requested, dispatched, outbox, statusLog>>
        ELSE LET campaign == campaigns[id]
                 sending == [campaigns EXCEPT ![id].status = "sending"]
                 valid == ValidContacts(contacts, id)
             IN  IF NotConfigured
                     THEN /\ campaigns' = sending
                          /\ statusLog' = [statusLog EXCEPT ![id] = Logged(@, "sending")]
                          /\ mailResp' = [route |-> "send", code |-> 503, id |-> id]
                          /\ UNCHANGED <<brevoApi, contacts, emailResults, uploadLog,
                                         requested, dispatched, outbox>>
                     ELSE /\ dispatched[id] < MaxDispatch
                          /\ \E outcomes \in [1..Len(valid) -> SendOutcomes] :
                               LET run == SendLoop(campaign, id, contacts, valid,
                                              outcomes, 1,
                                              [results |-> <<>>, calls |-> <<>>,
                                               sent |-> InitialTally.sent,
                                               failed |-> InitialTally.failed])
                               IN  /\ emailResults' = emailResults \o run.results
                                   /\ outbox' = outbox \o run.calls
                                   /\ campaigns' =
                                        [sending EXCEPT
                                           ![id] = FinalUpdate(@, run.sent, run.failed)]
                                   /\ mailResp' =
                                        [route |-> "send", code |-> 200, id |-> id,
                                         sentCount |-> run.sent,
                                         failedCount |-> run.failed,
                                         total |-> Len(valid)]
                          /\ dispatched' = [dispatched EXCEPT ![id] = @ + 1]
                          /\ statusLog' =
                               [statusLog EXCEPT
                                  ![id] = Logged(Logged(@, "sending"),
                                                 campaigns'[id].status)]
                          /\ UNCHANGED <<brevoApi, contacts, uploadLog, requested>>

----------------------------------------------------------------------------
(* GET /api/campaigns/:id/results *)

GetResults(id) ==
    /\ mailResp' =
         IF id \notin 1..Len(campaigns)
             THEN [route |-> "results", code |-> 404, id |-> id]
             ELSE [route |-> "results", code |-> 200, id |-> id,
                   total |-> campaigns[id].totalContacts,
                   sent |-> campaigns[id].sentCount,
                   failed |-> campaigns[id].failedCount,
                   results |-> Cardinality(ResultsOf(emailResults, id))]
    /\ UNCHANGED <<brevoApi, contacts, campaigns, emailResults, uploadLog,
                   requested, dispatched, outbox, statusLog>>

----------------------------------------------------------------------------
(* The contact and campaign routes as one system *)

NoResponse == [route |-> "none", code |-> 0]

InitMail ==
    /\ brevoApi \in BOOLEAN
    /\ contacts = <<>>
    /\ campaigns = <<>>
    /\ emailResults = <<>>
    /\ mailResp = NoResponse
    /\ uploadLog = <<>>
    /\ requested = <<>>
    /\ dispatched = <<>>
    /\ outbox = <<>>
    /\ statusLog = <<>>

\* Every unknown id behaves alike: Len + 1 stands for them
ContactIdLists == SeqsOf(1..(Len(contacts) + 1), 0, MaxIdList)

Upload == \E file \in {NoFile} \cup {File(rows) : rows \in SheetRows} : UploadContacts(file)

Create ==
    \E subject \in Subjects, message \in Messages, contactIds \in ContactIdLists :
        CreateCampaign(subject, message, contactIds)

Send == \E id \in 1..(Len(campaigns) + 1) : SendCampaign(id)

Results == \E id \in 1..(Len(campaigns) + 1) : GetResults(id)


----------------------------------------------------------------------------
(* The image generation job tracker: POST /api/generate-image/start *)

\* An optional field is a sequence of length 0 (undefined) or 1
Undefined == <<>>
Some(v) == <<v>>

\* An id no submission ever returned
UnknownId == 0 - 1

Descriptions == {<<>>, <<" ">>, <<"s">>}

\* !imageDescription || imageDescription.trim().length === 0
IsBlank(d) == \A i \in 1..Len(d) : d[i] = " "

NoImgResponse ==
    [route |-> "none", code |-> 0, taskId |-> UnknownId, status |-> "undefined",
     imageUrl |-> "undefined", error |-> "undefined", retryAfter |-> "undefined"]

ImgResponse(route, code, taskId, status, imageUrl, error, retryAfter) ==
    [route |-> route, code |-> code, taskId |-> taskId, status |-> status,
     imageUrl |-> imageUrl, error |-> error, retryAfter |-> retryAfter]

\* res.status(code).json({error}) of either image route
ImgError(route, code, taskId, status) ==
    ImgResponse(route, code, taskId, status, "undefined", "error", "undefined")

\* A record that already carries a prompt for the image provider
NewTaskEnhanced(description) ==
    [originalPrompt |-> description, enhancedPrompt |-> Some(description),
     freepikTaskId |-> Undefined, status |-> "CREATED",
     imageUrl |-> "undefined", error |-> "undefined"]

\* imageTaskCache.set(taskId, {originalPrompt, status: 'CREATED'})
NewTask(description) ==
    [originalPrompt |-> description, enhancedPrompt |-> Undefined,
     freepikTaskId |-> Undefined, status |-> "CREATED",
     imageUrl |-> "undefined", error |-> "undefined"]

StartImage(description) ==
    /\ IF ~freepikKey \/ ~openrouterKey
         THEN /\ imgResp' = ImgError("start", 503, UnknownId, "undefined")
              /\ UNCHANGED <<imageTaskCache, initCalls>>
         ELSE IF IsBlank(description)
         THEN /\ imgResp' = ImgError("start", 400, UnknownId, "undefined")
              /\ UNCHANGED <<imageTaskCache, initCalls>>
         ELSE /\ Len(imageTaskCache) < MaxTasks
              /\ imageTaskCache' = Append(imageTaskCache, NewTask(description))
              /\ initCalls' = Append(initCalls, [enhance |-> 0, submit |-> 0])
              /\ imgResp' = ImgResponse("start", 200, Len(imageTaskCache) + 1,
                                "CREATED", "undefined", "undefined", "undefined")
    /\ UNCHANGED <<freepikKey, openrouterKey, polls, pollLog>>

----------------------------------------------------------------------------
(* GET /api/generate-image/status/:taskId *)

Idle == [pc |-> "idle", taskId |-> UnknownId]
Awaiting(pc, taskId) == [pc |-> pc, taskId |-> taskId]

\* Nothing polled yet
NoPollLog == [entry |-> [r \in 1..MaxInFlight |-> Undefined], answer |-> Undefined]

\* What the completion provider answers to the prompt enhancement request
EnhanceAnswers ==
    {[ok |-> FALSE, content |-> <<>>],
     [ok |-> TRUE, content |-> <<"e">>],
     [ok |-> TRUE, content |-> <<>>]}

\* What the image provider answers to the submission: data.task_id (present or
\* not) and data.status
SubmitAnswers ==
    {[ok |-> FALSE, hasTaskId |-> FALSE, status |-> "undefined"],
     [ok |-> TRUE, hasTaskId |-> FALSE, status |-> "CREATED"],
     [ok |-> TRUE, hasTaskId |-> TRUE, status |-> "CREATED"],
     [ok |-> TRUE, hasTaskId |-> TRUE, status |-> "COMPLETED"]}

\* What the image provider answers to a status query: the HTTP status, the
\* Retry-After header, data.status (any raw string, or none), data.generated
\* and the error message found in the body (or none)
StatusAnswer(http, retryAfter, status, generated, message) ==
    [http |-> http, retryAfter |-> retryAfter, status |-> status,
     generated |-> generated, message |-> message]

StatusAnswers ==
    {StatusAnswer(429, "7", "undefined", <<>>, "undefined"),
     StatusAnswer(429, "undefined", "undefined", <<>>, "undefined"),
     StatusAnswer(500, "undefined", "undefined", <<>>, "undefined"),
     StatusAnswer(200, "undefined", "undefined", <<>>, "undefined"),
     StatusAnswer(200, "undefined", "CREATED", <<>>, "undefined"),
     StatusAnswer(200, "undefined", "IN_PROGRESS", <<>>, "undefined"),
     StatusAnswer(200, "undefined", "COMPLETED", <<"url1", "url2">>, "undefined"),
     StatusAnswer(200, "undefined", "COMPLETED", <<>>, "undefined"),
     StatusAnswer(200, "undefined", "FAILED", <<>>, "provider message"),
     StatusAnswer(200, "undefined", "FAILED", <<>>, "undefined")}

\* The header ignored
AlwaysDefault(a, b) == b

\* a || b on strings that may be undefined
OrDefault(a, b) == IF a # "undefined" THEN a ELSE b

\* A job whose initialization has begun taken for a new one
NeedsInitOrInitializing(task) == task.status \in {"CREATED", "INITIALIZING"}

\* if (task.status === 'CREATED')
NeedsInit(task) == task.status = "CREATED"

\* if (task.freepikTaskId)
HasHandle(task) == task.freepikTaskId # Undefined

\* The failure recorded without its message
InitFailedSilently(task, message) == [task EXCEPT !.status = "FAILED"]

\* The catch block of the lazy initialization
InitFailed(task, message) == [task EXCEPT !.status = "FAILED", !.error = message]

\* An unknown id answered with a default status
StaleStatus(taskId) ==
    ImgResponse("status", 200, taskId, "CREATED", "undefined", "undefined", "undefined")

\* if (!task) return res.status(404).json({status: 'ERROR', error})
NotFound(taskId) == ImgError("status", 404, taskId, "ERROR")

\* One more provider call made for a job; calls beyond MaxInit are not told apart
Counted(n) == IF n < MaxInit THEN n + 1 ELSE MaxInit

\* The handler from its entry to its first provider call or its response
PollStart(r, taskId) ==
    /\ polls[r].pc = "idle"
    /\ IF ~freepikKey \/ ~openrouterKey
         THEN /\ imgResp' = ImgError("status", 503, taskId, "undefined")
              /\ UNCHANGED <<imageTaskCache, polls, initCalls>>
         ELSE IF taskId \notin 1..Len(imageTaskCache)
         THEN /\ imgResp' = NotFound(taskId)
              /\ UNCHANGED <<imageTaskCache, polls, initCalls>>
         ELSE LET task == imageTaskCache[taskId] IN
              IF NeedsInit(task)
              THEN /\ imageTaskCache' =
                        [imageTaskCache EXCEPT ![taskId].status = "INITIALIZING"]
                   /\ initCalls' = [initCalls EXCEPT ![taskId].enhance = Counted(@)]
                   /\ polls' = [polls EXCEPT ![r] = Awaiting("enhance", taskId)]
                   /\ UNCHANGED imgResp
              ELSE IF HasHandle(task)
              THEN /\ polls' = [polls EXCEPT ![r] = Awaiting("status", taskId)]
                   /\ UNCHANGED <<imageTaskCache, imgResp, initCalls>>
              ELSE /\ imgResp' = ImgResponse("status", 200, taskId, task.status,
                                     task.imageUrl, task.error, "undefined")
                   /\ UNCHANGED <<imageTaskCache, polls, initCalls>>
    /\ pollLog' = [entry |-> [pollLog.entry EXCEPT
                                 ![r] = IF taskId \in 1..Len(imageTaskCache)
                                        THEN Some(imageTaskCache[taskId])
                                        ELSE Undefined],
                   answer |-> Undefined]
    /\ UNCHANGED <<freepikKey, openrouterKey>>

\* The completion provider has answered: lines 552-579
EnhanceReturn(r, answer) ==
    /\ polls[r].pc = "enhance"
    /\ LET taskId == polls[r].taskId
           task == imageTaskCache[taskId]
       IN  IF ~answer.ok
           THEN /\ imageTaskCache' =
                     [imageTaskCache EXCEPT
                        ![taskId] = InitFailed(task, "Prompt enhancement failed")]
                /\ imgResp' = ImgResponse("status", 200, taskId, "FAILED", "undefined",
                                  "Prompt enhancement failed", "undefined")
                /\ polls' = [polls EXCEPT ![r] = Idle]
                /\ UNCHANGED initCalls
           ELSE /\ imageTaskCache' =
                     [imageTaskCache EXCEPT
                        ![taskId].enhancedPrompt =
                            Some(OrElse(answer.content, task.originalPrompt))]
                /\ initCalls' = [initCalls EXCEPT ![taskId].submit = Counted(@)]
                /\ polls' = [polls EXCEPT ![r] = Awaiting("submit", taskId)]
                /\ UNCHANGED imgResp
    /\ UNCHANGED <<freepikKey, openrouterKey, pollLog>>

\* task.status = taskStatus === 'COMPLETED' ? 'COMPLETED' : 'PENDING'
SubmittedStatus(taskStatus) ==
    IF taskStatus = "COMPLETED" THEN "COMPLETED" ELSE "PENDING"

\* The image provider has answered the submission: lines 581-621. With a task
\* id the handler goes on to the status query in the same turn.
SubmitReturn(r, answer) ==
    /\ polls[r].pc = "submit"
    /\ LET taskId == polls[r].taskId
           task == imageTaskCache[taskId]
           message == IF ~answer.ok THEN "Freepik API error"
                      ELSE "No task ID received from Freepik API"
       IN  IF ~answer.ok \/ ~answer.hasTaskId
           THEN /\ imageTaskCache' =
                     [imageTaskCache EXCEPT ![taskId] = InitFailed(task, message)]
                /\ imgResp' = ImgResponse("status", 200, taskId, "FAILED", "undefined",
                                  message, "undefined")
                /\ polls' = [polls EXCEPT ![r] = Idle]
           ELSE /\ imageTaskCache' =
                     [imageTaskCache EXCEPT
                        ![taskId].freepikTaskId =
                            Some(<<taskId, initCalls[taskId].submit>>),
                        ![taskId].status = SubmittedStatus(answer.status)]
                /\ polls' = [polls EXCEPT ![r] = Awaiting("status", taskId)]
                /\ UNCHANGED imgResp
    /\ UNCHANGED <<freepikKey, openrouterKey, initCalls, pollLog>>

\* The asset produced last
LastAsset(generated) == generated[Len(generated)]

\* const imageUrl = generatedImages[0]
FirstAsset(generated) == generated[1]

\* const errorMessage = data.error.message || data.error || data.message ||
\* statusData.message || 'Image generation failed'
FailureMessage(answer) == OrDefault(answer.message, "Image generation failed")

\* The image provider has answered the status query: lines 623-685 and the
\* outer catch, lines 695-701
StatusReturn(r, answer) ==
    /\ polls[r].pc = "status"
    /\ pollLog' = [pollLog EXCEPT !.answer = Some(answer)]
    /\ polls' = [polls EXCEPT ![r] = Idle]
    /\ LET taskId == polls[r].taskId
           task == imageTaskCache[taskId]
       IN  IF answer.http = 429
           THEN /\ imgResp' = ImgResponse("status", 429, taskId, "RATE_LIMITED",
                                  "undefined", "Rate limit exceeded",
                                  OrDefault(answer.retryAfter, "30"))
                /\ UNCHANGED imageTaskCache
           ELSE IF answer.http # 200
           THEN /\ imgResp' = ImgResponse("status", 500, taskId, "ERROR", "undefined",
                                  "Failed to check status", "undefined")
                /\ UNCHANGED imageTaskCache
           ELSE IF answer.status = "COMPLETED" /\ Len(answer.generated) > 0
           THEN /\ imageTaskCache' =
                     [imageTaskCache EXCEPT
                        ![taskId].imageUrl = FirstAsset(answer.generated),
                        ![taskId].status = "COMPLETED"]
                /\ imgResp' = ImgResponse("status", 200, taskId, "COMPLETED",
                                  FirstAsset(answer.generated), "undefined", "undefined")
           ELSE IF answer.status = "COMPLETED"
           THEN /\ imageTaskCache' =
                     [imageTaskCache EXCEPT
                        ![taskId].status = "FAILED",
                        ![taskId].error = "Task completed but no images were generated"]
                /\ imgResp' = ImgResponse("status", 200, taskId, "FAILED", "undefined",
                                  "Task completed but no images were generated",
                                  "undefined")
           ELSE IF answer.status = "FAILED"
           THEN /\ imageTaskCache' =
                     [imageTaskCache EXCEPT
                        ![taskId].status = "FAILED",
                        ![taskId].error = FailureMessage(answer)]
                /\ imgResp' = ImgResponse("status", 200, taskId, "FAILED", "undefined",
                                  FailureMessage(answer), "undefined")
           ELSE /\ imageTaskCache' =
                     [imageTaskCache EXCEPT
                        ![taskId].status = OrDefault(answer.status, "PROCESSING")]
                /\ imgResp' = ImgResponse("status", 200, taskId,
                                  OrDefault(answer.status, "PROCESSING"),
                                  "undefined", "undefined", "undefined")
    /\ UNCHANGED <<freepikKey, openrouterKey, initCalls>>


----------------------------------------------------------------------------
(* POST /api/ai-message: post-processing of the completion *)

SmsLimit == 160
WhatsAppLimit == 1100
WhatsAppComplianceLimit == 250

\* const limit = messageType === 'sms' ? 160 : 1100
Limit(messageType) == IF messageType = "sms" THEN SmsLimit ELSE WhatsAppLimit

\* s.substring(from, to) for 0-based from = 0: a negative end counts as 0
Substring0(s, to) == SubSeq(s, 1, IF to < 0 THEN 0 ELSE IF to > Len(s) THEN Len(s) ELSE to)

\* s.lastIndexOf(" "), 0-based, -1 when there is none
LastIndexOfSpace(s) ==
    IF \E i \in 1..Len(s) : s[i] = " "
        THEN (CHOOSE i \in 1..Len(s) :
                 s[i] = " " /\ \A k \in (i + 1)..Len(s) : s[k] # " ") - 1
        ELSE 0 - 1

Min(a, b) == IF a < b THEN a ELSE b

Ellipsis == <<".", ".", ".">>

\* if (finalMessage.length > limit) { truncated = substring(0, limit);
\* truncated = truncated.substring(0, Math.min(truncated.length,
\* truncated.lastIndexOf(" "))); finalMessage = truncated + "..." }
Truncate(generated, limit) ==
    IF Len(generated) > limit
        THEN LET truncated == Substring0(generated, limit)
             IN  Substring0(truncated, Min(Len(truncated), LastIndexOfSpace(truncated)))
                    \o Ellipsis
        ELSE generated

\* finalMessage.split(/\s+/).filter(word => word.length > 0).length
WordCount(s) ==
    Cardinality({i \in 1..Len(s) : s[i] # " " /\ (i = 1 \/ s[i - 1] = " ")})

\* The letters the completions use in upper case
Lower(ch) ==
    CASE ch = "S" -> "s" [] ch = "T" -> "t" [] ch = "O" -> "o" [] ch = "P" -> "p"
      [] ch = "E" -> "e" [] ch = "I" -> "i" [] ch = "B" -> "b" [] ch = "C" -> "c"
      [] OTHER -> ch

LowerCase(s) == [i \in 1..Len(s) |-> Lower(s[i])]

\* /word/i.test(s)
TestWord(s, word) ==
    LET t == LowerCase(s)
    IN  \E i \in 1..Len(t) : t[i] = word[1] /\ MatchesAt(t, word, i)

\* /a.?b/i.test(s): a, at most one character (no line break), b
TestGap(s, a, b) ==
    LET t == LowerCase(s)
    IN  \E i \in 1..Len(t) :
            /\ t[i] = a[1]
            /\ MatchesAt(t, a, i)
            /\ \/ MatchesAt(t, b, i + Len(a))
               \/ /\ i + Len(a) <= Len(t)
                  /\ t[i + Len(a)] # "\n"
                  /\ MatchesAt(t, b, i + Len(a) + 1)

\* /stop|opt.?out|unsubscribe/i
HasOptOut(s) ==
    \/ TestWord(s, <<"s", "t", "o", "p">>)
    \/ TestGap(s, <<"o", "p", "t">>, <<"o", "u", "t">>)
    \/ TestWord(s, <<"u", "n", "s", "u", "b", "s", "c", "r", "i", "b", "e">>)

\* /elite.?iit/i
HasBusinessName(s) == TestGap(s, <<"e", "l", "i", "t", "e">>, <<"i", "i", "t">>)

\* /call|contact|visit|reply|click|join/i
HasCTA(s) ==
    \/ TestWord(s, <<"c", "a", "l", "l">>)
    \/ TestWord(s, <<"c", "o", "n", "t", "a", "c", "t">>)
    \/ TestWord(s, <<"v", "i", "s", "i", "t">>)
    \/ TestWord(s, <<"r", "e", "p", "l", "y">>)
    \/ TestWord(s, <<"c", "l", "i", "c", "k">>)
    \/ TestWord(s, <<"j", "o", "i", "n">>)

\* /yelahanka|bangalore/i
HasLocation(s) ==
    \/ TestWord(s, <<"y", "e", "l", "a", "h", "a", "n", "k", "a">>)
    \/ TestWord(s, <<"b", "a", "n", "g", "a", "l", "o", "r", "e">>)

\* messageType === 'sms' ? characterCount <= 160 : characterCount <= 250
WithinLimit(messageType, characterCount) ==
    IF messageType = "sms" THEN characterCount <= SmsLimit
    ELSE characterCount <= WhatsAppComplianceLimit

Compliance(messageType, final) ==
    LET probes == [hasOptOut |-> HasOptOut(final),
                   hasBusinessName |-> HasBusinessName(final),
                   hasCTA |-> HasCTA(final),
                   withinLimit |-> WithinLimit(messageType, Len(final)),
                   hasLocation |-> HasLocation(final)]
    IN  [probes |-> probes,
         isCompliant |-> /\ probes.hasOptOut
                         /\ probes.hasBusinessName
                         /\ probes.hasCTA
                         /\ probes.withinLimit
                         /\ probes.hasLocation]

\* The completion provider's answer: a failure, or choices[0].message.content
CompletionFailed == [ok |-> FALSE, content |-> <<>>]
Completed(content) == [ok |-> TRUE, content |-> content]

NoMsgResponse == [code |-> 0]

GenerateAiMessage(messageType, answer) ==
    /\ IF ~openrouterKey
         THEN /\ msgResp' = [code |-> 503]
              /\ UNCHANGED aiMessages
         ELSE IF ~answer.ok
         THEN /\ msgResp' = [code |-> 500]
              /\ UNCHANGED aiMessages
         ELSE LET final == Truncate(answer.content, Limit(messageType))
                  compliance == Compliance(messageType, final)
                  aiMessage == [messageType |-> messageType,
                                generatedMessage |-> final,
                                characterCount |-> Len(final),
                                wordCount |-> WordCount(final),
                                isCompliant |-> compliance.isCompliant]
              IN  /\ Len(aiMessages) < MaxMessages
                  /\ aiMessages' = Append(aiMessages, aiMessage)
                  /\ msgResp' = [code |-> 200, id |-> Len(aiMessages) + 1,
                                 aiMessage |-> aiMessage,
                                 compliance |-> compliance.probes]
    /\ UNCHANGED <<mailVars, freepikKey, openrouterKey, imageTaskCache, polls,
                   imgResp, initCalls, pollLog, merge, client>>

\* A text of the given length: blanks at the given positions, x elsewhere
Text(len, spaces) == [i \in 1..len |-> IF i \in spaces THEN " " ELSE "x"]

\* Lengths and blank positions around each channel's cap
CompletionsNear(limit) ==
    {Text(len, spaces) :
        len \in {0, 2, limit - 1, limit, limit + 1, limit + 2, limit + 40},
        spaces \in SUBSET {2, limit - 1, limit, limit + 1}}

\* Texts made of the words the probes look for
Reply == <<"r", "e", "p", "l", "y">>
Stop == <<"S", "T", "O", "P">>
EliteIIT == <<"E", "l", "i", "t", "e", "I", "I", "T">>
Call == <<"c", "a", "l", "l">>
Bangalore == <<"B", "a", "n", "g", "a", "l", "o", "r", "e">>

Keywords == <<Reply, Stop, EliteIIT, Call, Bangalore>>

\* The chosen keywords in order, each followed by a blank
RECURSIVE Sentence(_, _)
Sentence(chosen, k) ==
    IF k > Len(Keywords) THEN <<>>
    ELSE (IF k \in chosen THEN Keywords[k] \o <<" ">> ELSE <<>>) \o Sentence(chosen, k + 1)

\* text, then x up to the given length (none if it is longer already)
PadTo(text, len) == text \o [i \in 1..(len - Len(text)) |-> "x"]

\* Short ones, ones over every length probe but under the WhatsApp cap, and
\* ones the SMS truncation leaves over 160 characters
KeywordCompletions ==
    {PadTo(Sentence(chosen, 1), len) :
        chosen \in SUBSET (1..Len(Keywords)), len \in {0, 310}}
    \cup {PadTo(Sentence(chosen, 1), SmsLimit - 1) \o <<" ", "x">> :
            chosen \in SUBSET (1..Len(Keywords))}

Completions ==
    CompletionsNear(SmsLimit) \cup CompletionsNear(WhatsAppLimit) \cup KeywordCompletions

Generate ==
    \E messageType \in {"sms", "whatsapp"},
       answer \in {CompletionFailed} \cup {Completed(c) : c \in Completions} :
        GenerateAiMessage(messageType, answer)

InitMessage ==
    /\ aiMessages = <<>>
    /\ msgResp = NoMsgResponse

----------------------------------------------------------------------------
(* POST /api/ai-message of the serverless deployment *)

ServerlessWhatsAppLimit == 300

\* /a.*b/i.test(s): a, any characters of the same line, b
TestThen(s, a, b) ==
    LET t == LowerCase(s)
    IN  \E i \in 1..Len(t) :
            /\ t[i] = a[1]
            /\ MatchesAt(t, a, i)
            /\ \E j \in (i + Len(a))..Len(t) :
                  /\ MatchesAt(t, b, j)
                  /\ \A k \in (i + Len(a))..(j - 1) : t[k] # "\n"

\* whatsapp: /reply.*stop|stop.*unsubscribe/i, sms: /STOP/i
ServerlessHasOptOut(messageType, s) ==
    IF messageType = "whatsapp"
    THEN \/ TestThen(s, <<"r", "e", "p", "l", "y">>, <<"s", "t", "o", "p">>)
         \/ TestThen(s, <<"s", "t", "o", "p">>,
                     <<"u", "n", "s", "u", "b", "s", "c", "r", "i", "b", "e">>)
    ELSE TestWord(s, <<"s", "t", "o", "p">>)

\* The compliance object and isCompliant, the conjunction of its four probes
ServerlessCompliance(messageType, generated) ==
    LET probes == [hasBusinessName |->
                       TestWord(generated, <<"e", "l", "i", "t", "e", "i", "i", "t">>),
                   hasLocation |->
                       TestWord(generated,
                                <<"b", "a", "n", "g", "a", "l", "o", "r", "e">>),
                   hasOptOut |-> ServerlessHasOptOut(messageType, generated),
                   characterCount |-> Len(generated),
                   withinLimit |-> IF messageType = "whatsapp"
                                   THEN Len(generated) <= ServerlessWhatsAppLimit
                                   ELSE Len(generated) <= SmsLimit]
    IN  [probes |-> probes,
         isCompliant |-> /\ probes.hasBusinessName
                         /\ probes.hasLocation
                         /\ probes.hasOptOut
                         /\ probes.withinLimit]

ServerlessGenerateAiMessage(messageType, answer) ==
    /\ IF ~openrouterKey
         THEN /\ msgResp' = [code |-> 503]
              /\ UNCHANGED aiMessages
         ELSE IF ~answer.ok
         THEN /\ msgResp' = [code |-> 500]
              /\ UNCHANGED aiMessages
         ELSE LET compliance == ServerlessCompliance(messageType, answer.content)
                  aiMessage == [messageType |-> messageType,
                                generatedMessage |-> answer.content,
                                characterCount |-> Len(answer.content),
                                wordCount |-> WordCount(answer.content),
                                isCompliant |-> compliance.isCompliant]
              IN  /\ Len(aiMessages) < MaxMessages
                  /\ aiMessages' = Append(aiMessages, aiMessage)
                  /\ msgResp' = [code |-> 200, id |-> Len(aiMessages) + 1,
                                 aiMessage |-> aiMessage,
                                 compliance |-> compliance.probes]
    /\ UNCHANGED <<mailVars, imageVars, merge, client>>

ServerlessGenerate ==
    \E messageType \in {"sms", "whatsapp"},
       answer \in {CompletionFailed} \cup {Completed(c) : c \in KeywordCompletions} :
        ServerlessGenerateAiMessage(messageType, answer)

----------------------------------------------------------------------------
(* Personalization of one template for one recipient *)

NoMerge == [template |-> <<>>, name |-> <<>>, result |-> Undefined]

Templates ==
    {HiName, NameToken, NameToken \o NameToken, Plain,
     <<"{", "n", "a">> \o NameToken \o <<"m", "e", "}">>,
     NameToken \o <<"!">>, <<"{", "n", "a", "m", "e">>, <<"$", "&", " ">> \o NameToken}

Names ==
    {Alice, Empty, <<"$", "&">>, <<"$", "$">>, <<"$", Quote>>, <<"$", BackQuote>>,
     <<"$", "1">>, NameToken, <<"A", "$">>}

ApplyTemplate ==
    /\ merge.result = Undefined
    /\ merge' = [merge EXCEPT !.result = Some(Personalize(merge.template, merge.name))]
    /\ UNCHANGED <<mailVars, imageVars, messageVars, client>>

----------------------------------------------------------------------------
(* The ImageGenerator component: handleGenerate and pollImageStatus *)

MaxAttempts == 40
BaseDelay == 2000
MaxDelay == 8000

NoClient ==
    [pc |-> "idle", taskId |-> UnknownId, attempts |-> 0, slept |-> 0,
     last |-> "none", toast |-> "none"]

\* parseInt on the retry delays the server sends
ParseInt(s) == CASE s = "7" -> 7 [] s = "30" -> 30

\* baseDelay * Math.pow(1.5, attempts), not followed beyond the cap
RECURSIVE Backoff(_)
Backoff(attempts) ==
    IF attempts = 0 THEN BaseDelay
    ELSE LET previous == Backoff(attempts - 1)
         IN  IF previous >= MaxDelay THEN MaxDelay ELSE (previous * 3) \div 2

\* Math.min(baseDelay * Math.pow(1.5, attempts), 8000)
Delay(attempts) == Min(Backoff(attempts), MaxDelay)

\* A fetch wrapper that parses every response
AnyResponseOk(response) == TRUE

\* checkImageStatus: if (!response.ok) throw new Error(error.error || ...)
ResponseOk(response) == response.code \in 200..299

\* The catch of handleGenerate: setIsGenerating(false) and the failure toast
GenerationFailed(c, status) ==
    [c EXCEPT !.pc = "idle", !.last = status, !.toast = "Generation Failed"]

\* handleGenerate up to the first status request; the start route answers in
\* the same turn of the server
HandleGenerate(description) ==
    /\ client.pc = "idle"
    /\ IF IsBlank(description)
         THEN /\ client' = [client EXCEPT !.toast = "Validation Error"]
              /\ UNCHANGED imageVars
         ELSE /\ StartImage(description)
              /\ client' =
                   IF ResponseOk(imgResp') /\ imgResp'.taskId # UnknownId
                   THEN [pc |-> "request", taskId |-> imgResp'.taskId,
                         attempts |-> 0, slept |-> 0, last |-> "none",
                         toast |-> "none"]
                   ELSE GenerationFailed(client, "none")

\* fetch of the status route: the request reaches the server
CheckImageStatus ==
    /\ client.pc = "request"
    /\ PollStart(1, client.taskId)
    /\ client' = [client EXCEPT !.pc = "waiting", !.last = "none"]

\* The answer of the status route reaches the loop body
StatusResult ==
    /\ client.pc = "waiting"
    /\ polls[1].pc = "idle"
    /\ client' =
         IF ~ResponseOk(imgResp)
         THEN GenerationFailed(client, imgResp.status)
         ELSE IF imgResp.status = "COMPLETED" /\ imgResp.imageUrl # "undefined"
         THEN [client EXCEPT !.pc = "idle", !.last = "COMPLETED",
                             !.toast = "Image Generated"]
         ELSE IF imgResp.status = "FAILED"
         THEN GenerationFailed(client, "FAILED")
         ELSE IF imgResp.status = "RATE_LIMITED"
         THEN [client EXCEPT
                 !.pc = "sleeping", !.last = "RATE_LIMITED",
                 !.slept = ParseInt(OrDefault(imgResp.retryAfter, "30")) * 1000]
         ELSE [client EXCEPT !.pc = "sleeping", !.last = imgResp.status,
                             !.slept = Delay(client.attempts)]
    /\ UNCHANGED imageVars

\* The timer fires: attempts++, then the loop condition
Wake ==
    /\ client.pc = "sleeping"
    /\ client' =
         IF client.attempts + 1 < MaxAttempts
         THEN [client EXCEPT !.pc = "request", !.attempts = @ + 1]
         ELSE [GenerationFailed(client, "timeout") EXCEPT !.attempts = @ + 1]
    /\ UNCHANGED imageVars

----------------------------------------------------------------------------
(* The systems *)

InitImage ==
    /\ freepikKey \in BOOLEAN
    /\ openrouterKey \in BOOLEAN
    /\ imageTaskCache = <<>>
    /\ polls = [r \in 1..MaxInFlight |-> Idle]
    /\ imgResp = NoImgResponse
    /\ initCalls = <<>>
    /\ pollLog = NoPollLog

\* The routes of the other features are not called
MailAtRest == InitMail /\ brevoApi
ImageAtRest == InitImage /\ freepikKey /\ openrouterKey
MergeAtRest == merge = NoMerge
ClientAtRest == client = NoClient

Start == \E description \in Descriptions : StartImage(description)

\* A status request arrives while fewer than n handlers are in flight
Poll(n) ==
    \E r \in 1..MaxInFlight, taskId \in (1..Len(imageTaskCache)) \cup {UnknownId} :
        /\ Cardinality({q \in 1..MaxInFlight : polls[q].pc # "idle"}) < n
        /\ \A q \in 1..(r - 1) : polls[q].pc # "idle"
        /\ PollStart(r, taskId)

Enhanced == \E r \in 1..MaxInFlight, answer \in EnhanceAnswers : EnhanceReturn(r, answer)

Submitted == \E r \in 1..MaxInFlight, answer \in SubmitAnswers : SubmitReturn(r, answer)

Status == \E r \in 1..MaxInFlight, answer \in StatusAnswers : StatusReturn(r, answer)

\* The contact and campaign routes
Init == InitMail /\ ImageAtRest /\ InitMessage /\ MergeAtRest /\ ClientAtRest

Next ==
    \/ Upload /\ UNCHANGED <<imageVars, messageVars, merge, client>>
    \/ Create /\ UNCHANGED <<imageVars, messageVars, merge, client>>
    \/ Send /\ UNCHANGED <<imageVars, messageVars, merge, client>>
    \/ Results /\ UNCHANGED <<imageVars, messageVars, merge, client>>

Spec == Init /\ [][Next]_vars

\* Every request is answered: a handler that has started runs to its response
SpecLive == Spec /\ WF_vars(Next)

\* The image job tracker
InitTracker == InitImage /\ MailAtRest /\ InitMessage /\ MergeAtRest /\ ClientAtRest

NextTracker ==
    \/ Start /\ Len(imageTaskCache') <= OneJob /\ UNCHANGED <<mailVars, messageVars, merge, client>>
    \/ Poll(OneAtATime) /\ UNCHANGED <<mailVars, messageVars, merge, client>>
    \/ Enhanced /\ UNCHANGED <<mailVars, messageVars, merge, client>>
    \/ Submitted /\ UNCHANGED <<mailVars, messageVars, merge, client>>
    \/ Status /\ UNCHANGED <<mailVars, messageVars, merge, client>>

SpecTracker == InitTracker /\ [][NextTracker]_vars

\* The image generator of the browser against the job tracker
InitClient == InitImage /\ MailAtRest /\ InitMessage /\ MergeAtRest /\ ClientAtRest

NextClient ==
    \/ (\E description \in Descriptions : HandleGenerate(description))
          /\ Len(imageTaskCache') <= OneJob
          /\ UNCHANGED <<mailVars, messageVars, merge>>
    \/ CheckImageStatus /\ UNCHANGED <<mailVars, messageVars, merge>>
    \/ Enhanced /\ UNCHANGED <<mailVars, messageVars, merge, client>>
    \/ Submitted /\ UNCHANGED <<mailVars, messageVars, merge, client>>
    \/ Status /\ UNCHANGED <<mailVars, messageVars, merge, client>>
    \/ StatusResult /\ UNCHANGED <<mailVars, messageVars, merge>>
    \/ Wake /\ UNCHANGED <<mailVars, messageVars, merge>>

SpecClient == InitClient /\ [][NextClient]_vars

\* Every fetch is answered and every timer fires
SpecClientLive == SpecClient /\ WF_vars(NextClient)

\* Several jobs, the image provider's status endpoint answering without errors
HealthyStatusAnswers ==
    {StatusAnswer(200, "undefined", "IN_PROGRESS", <<>>, "undefined"),
     StatusAnswer(200, "undefined", "COMPLETED", <<"url1", "url2">>, "undefined"),
     StatusAnswer(200, "undefined", "FAILED", <<>>, "undefined")}

StatusHealthy ==
    \E r \in 1..MaxInFlight, answer \in HealthyStatusAnswers : StatusReturn(r, answer)

InitJobs == InitImage /\ MailAtRest /\ InitMessage /\ MergeAtRest /\ ClientAtRest

NextJobs ==
    \/ Start /\ UNCHANGED <<mailVars, messageVars, merge, client>>
    \/ Poll(OneAtATime) /\ UNCHANGED <<mailVars, messageVars, merge, client>>
    \/ Enhanced /\ UNCHANGED <<mailVars, messageVars, merge, client>>
    \/ Submitted /\ UNCHANGED <<mailVars, messageVars, merge, client>>
    \/ StatusHealthy /\ UNCHANGED <<mailVars, messageVars, merge, client>>

SpecJobs == InitJobs /\ [][NextJobs]_vars

\* One job polled by requests that overlap: a request arrives while another
\* is suspended in a provider call
InitConcurrent == InitImage /\ MailAtRest /\ InitMessage /\ MergeAtRest /\ ClientAtRest

NextConcurrent ==
    \/ Start /\ Len(imageTaskCache') <= OneJob /\ UNCHANGED <<mailVars, messageVars, merge, client>>
    \/ Poll(MaxInFlight) /\ UNCHANGED <<mailVars, messageVars, merge, client>>
    \/ Enhanced /\ UNCHANGED <<mailVars, messageVars, merge, client>>
    \/ Submitted /\ UNCHANGED <<mailVars, messageVars, merge, client>>
    \/ StatusHealthy /\ UNCHANGED <<mailVars, messageVars, merge, client>>

SpecConcurrent == InitConcurrent /\ [][NextConcurrent]_vars

\* A provider whose tasks make progress: the first status query of a task,
\* made right after its submission, finds it in the provider's initial status
\* CREATED; every later query of that task finds it IN_PROGRESS or finished.
\* A status query is the task's first when the record still has the status
\* the submission gave it.
FirstQuery(task) == task.status = "PENDING"

TerminalAnswers ==
    {StatusAnswer(200, "undefined", "COMPLETED", <<"url1", "url2">>, "undefined"),
     StatusAnswer(200, "undefined", "FAILED", <<>>, "undefined")}

\* The steps of the job tracker, the other features at rest
StatusInProgressStep ==
    /\ \E r \in 1..MaxInFlight :
          /\ polls[r].pc = "status"
          /\ \E answer \in IF FirstQuery(imageTaskCache[polls[r].taskId])
                               THEN {StatusAnswer(200, "undefined", "CREATED", <<>>,
                                                  "undefined")}
                               ELSE HealthyStatusAnswers \ TerminalAnswers :
                 StatusReturn(r, answer)
    /\ UNCHANGED <<mailVars, messageVars, merge, client>>

StatusTerminalStep(t) ==
    /\ \E r \in 1..MaxInFlight :
          /\ polls[r].pc = "status"
          /\ polls[r].taskId = t
          /\ ~FirstQuery(imageTaskCache[t])
          /\ \E answer \in TerminalAnswers : StatusReturn(r, answer)
    /\ UNCHANGED <<mailVars, messageVars, merge, client>>

\* A poll of job t, one request at a time
PollJobOf(t) ==
    /\ t \in 1..Len(imageTaskCache)
    /\ \A q \in 1..MaxInFlight : polls[q].pc = "idle"
    /\ PollStart(1, t)
    /\ UNCHANGED <<mailVars, messageVars, merge, client>>

EnhancedStep == Enhanced /\ UNCHANGED <<mailVars, messageVars, merge, client>>

SubmittedStep == Submitted /\ UNCHANGED <<mailVars, messageVars, merge, client>>

NextProgress ==
    \/ Start /\ Len(imageTaskCache') <= OneJob /\ UNCHANGED <<mailVars, messageVars, merge, client>>
    \/ \E t \in 1..MaxTasks : PollJobOf(t)
    \/ EnhancedStep
    \/ SubmittedStep
    \/ StatusInProgressStep
    \/ \E t \in 1..MaxTasks : StatusTerminalStep(t)

\* Every provider call is answered, every job keeps being polled, and a task
\* that is queried again and again is eventually reported finished
SpecProgress ==
    /\ InitTracker
    /\ [][NextProgress]_vars
    /\ WF_vars(EnhancedStep)
    /\ WF_vars(SubmittedStep)
    /\ WF_vars(StatusInProgressStep \/ \E t \in 1..MaxTasks : StatusTerminalStep(t))
    /\ \A t \in 1..MaxTasks : SF_vars(PollJobOf(t))
    /\ \A t \in 1..MaxTasks : SF_vars(StatusTerminalStep(t))

\* The message generator
InitGenerator ==
    /\ InitMessage
    /\ MailAtRest
    /\ InitImage
    /\ freepikKey
    /\ MergeAtRest
    /\ ClientAtRest

NextGenerator == Generate

SpecGenerator == InitGenerator /\ [][NextGenerator]_vars

\* The message generator of the serverless deployment
InitServerless == InitGenerator

NextServerless == ServerlessGenerate

SpecServerless == InitServerless /\ [][NextServerless]_vars

\* The placeholder substitution on every template and name
InitMerge ==
    /\ merge \in [template : Templates, name : Names, result : {Undefined}]
    /\ MailAtRest
    /\ ImageAtRest
    /\ InitMessage
    /\ ClientAtRest

NextMerge == ApplyTemplate

SpecMerge == InitMerge /\ [][NextMerge]_vars


----------------------------------------------------------------------------
(* Properties of the contact and campaign routes *)

\* The contacts the import reported as valid among those now attached to c
ImportValidAttached(c) ==
    {k \in 1..Len(contacts) :
        contacts[k].campaignId = c /\ EmailRegexTest(contacts[k].email)}

\* Campaign c was created from the contactIds of upload response u and still
\* holds exactly those contacts
CreatedFromUpload(c, u) ==
    /\ requested[c] = uploadLog[u].contactIds
    /\ \A k \in 1..Len(contacts) :
         contacts[k].campaignId = c <=> k \in Range(requested[c])

ReportedValid(u) ==
    Cardinality({i \in 1..Len(uploadLog[u].isValid) : uploadLog[u].isValid[i]})

\* C3 (as claimed): upload, create a campaign from the returned contactIds,
\* dispatch once: the campaign then has exactly N EmailResults and
\* sentCount + failedCount = N, N being the contacts the import flagged valid.
C3_ResultsMatchImportValid ==
    \A c \in 1..Len(campaigns) : \A u \in 1..Len(uploadLog) :
        (dispatched[c] = 1 /\ CreatedFromUpload(c, u)) =>
            /\ Cardinality(ResultsOf(emailResults, c)) = ReportedValid(u)
            /\ campaigns[c].sentCount + campaigns[c].failedCount = ReportedValid(u)

SendReturned == mailResp.route = "send" /\ mailResp.code = 200

\* C8: when a send request that reached its loop has answered, the campaign's
\* stored status is completed and its stored counters are the tally the
\* request reported.
C8_CompletedAfterDispatch ==
    SendReturned =>
        /\ campaigns[mailResp.id].status = "completed"
        /\ campaigns[mailResp.id].sentCount = mailResp.sentCount
        /\ campaigns[mailResp.id].failedCount = mailResp.failedCount

\* A send request has answered 200 for a campaign that holds contacts with
\* well-formed emails
C8_Witness ==
    /\ SendReturned
    /\ ImportValidAttached(mailResp.id) # {}
    /\ campaigns[mailResp.id].status = "completed"

C16_RefusedDispatchSendsNothing ==
    [][mailResp'.route = "send" =>
         /\ (mailResp'.id \in 1..Len(campaigns) /\ ~brevoApi) =>
                /\ mailResp'.code = 503
                /\ outbox' = outbox
                /\ emailResults' = emailResults
         /\ mailResp'.id \notin 1..Len(campaigns) =>
                /\ mailResp'.code = 404
                /\ contacts' = contacts
                /\ campaigns' = campaigns
                /\ emailResults' = emailResults
                /\ outbox' = outbox]_vars

\* Without the credential a send request for a campaign that holds a contact
\* with a well-formed email was answered 503
C16_Witness ==
    /\ ~brevoApi
    /\ mailResp.route = "send"
    /\ mailResp.code = 503
    /\ ImportValidAttached(mailResp.id) # {}
    /\ emailResults = <<>>
    /\ outbox = <<>>

\* The send calls made for campaign c, in the order they were made
CallsFor(c) == LET ForCampaign(call) == call.campaignId = c IN SelectSeq(outbox, ForCampaign)

\* The addresses the import found well formed among the contacts of campaign
\* c, in the store's insertion order
RecipientsInOrder(c) ==
    LET ids == IdsWhere(contacts,
                        [k \in 1..Len(contacts) |->
                            contacts[k].campaignId = c
                                /\ EmailRegexTest(contacts[k].email)],
                        1)
    IN  [i \in 1..Len(ids) |-> contacts[ids[i]].email]

AttachedTo(store, c) == {k \in 1..Len(store) : store[k].campaignId = c}

\* This step creates a campaign
CreatesCampaign == Len(campaigns') = Len(campaigns) + 1

\* This step dispatches a campaign other than a
DispatchesOther(a) ==
    /\ Len(campaigns') = Len(campaigns)
    /\ \E b \in 1..Len(campaigns) : b # a /\ dispatched'[b] = dispatched[b] + 1

\* C22 (as claimed): creating or dispatching a campaign B changes, for no
\* other campaign A, its record, its EmailResults or the set of contacts
\* attached to it.
C22_OtherCampaignsUntouched ==
    [][\A a \in 1..Len(campaigns) :
         (CreatesCampaign \/ DispatchesOther(a)) =>
            /\ campaigns'[a] = campaigns[a]
            /\ ResultsOf(emailResults', a) = ResultsOf(emailResults, a)
            /\ AttachedTo(contacts', a) = AttachedTo(contacts, a)]_vars

\* This step handles a campaign-creation request and answers with an error
CreateRefused ==
    /\ Len(requested') = Len(requested) + 1
    /\ mailResp'.route = "create"
    /\ mailResp'.code # 200

\* C29 (as claimed): a campaign-creation request that ends in an error
\* response adds no campaign record and changes no contact's campaign
\* reference.
C29_RefusedCreateChangesNothing ==
    [][CreateRefused =>
          /\ campaigns' = campaigns
          /\ \A k \in 1..Len(contacts) : contacts'[k].campaignId = contacts[k].campaignId]_vars

\* This step handles a dispatch request and answers not-found or
\* service-unavailable
DispatchRefused ==
    /\ mailResp'.route = "send"
    /\ mailResp'.code \in {404, 503}

\* C27 (as claimed): a dispatch request that ends in an error response leaves
\* every campaign's stored status and counters as they were.
C27_RefusedDispatchKeepsCampaign ==
    [][DispatchRefused =>
          \A c \in 1..Len(campaigns) :
              /\ campaigns'[c].status = campaigns[c].status
              /\ campaigns'[c].sentCount = campaigns[c].sentCount
              /\ campaigns'[c].failedCount = campaigns[c].failedCount]_vars

\* C23 (as claimed): whenever a campaign's stored status is sending, it is
\* eventually completed.
C23_SendingLeadsToCompleted ==
    \A c \in 1..MaxCampaigns :
        (c <= Len(campaigns) /\ campaigns[c].status = "sending")
            ~> (c <= Len(campaigns) /\ campaigns[c].status = "completed")

\* C24 (as claimed): a campaign's stored status only moves forward along
\* pending -> sending -> completed, never from completed back to sending or
\* pending, and its subject and body never change after creation.
C24_StatusMovesForward ==
    /\ [](\A c \in 1..Len(statusLog) :
            \A i, j \in 1..Len(statusLog[c]) :
                (i < j /\ statusLog[c][i] = "completed") => statusLog[c][j] = "completed")
    /\ [][\A c \in 1..Len(campaigns) :
            /\ campaigns'[c].subject = campaigns[c].subject
            /\ campaigns'[c].message = campaigns[c].message]_vars

\* C26 (as claimed): the validity flag held in the store for a contact is the
\* flag the upload response reported for it, the result of the email-shape
\* test on its email, and it never changes.
C26_StoredFlagIsReportedFlag ==
    /\ [](\A u \in 1..Len(uploadLog) :
            \A i \in 1..Len(uploadLog[u].contactIds) :
                LET contact == contacts[uploadLog[u].contactIds[i]]
                IN  /\ contact.isValid = uploadLog[u].isValid[i]
                    /\ contact.isValid = EmailRegexTest(contact.email))
    /\ [][\A k \in 1..Len(contacts) : contacts'[k].isValid = contacts[k].isValid]_vars

\* C10: sentCount + failedCount never exceeds totalContacts.
C10_TallyWithinTotal ==
    \A c \in 1..Len(campaigns) :
        campaigns[c].sentCount + campaigns[c].failedCount <= campaigns[c].totalContacts

\* Two campaigns were created from the same contact id, one of them listing it
\* twice, and both have been dispatched twice
C10_Witness ==
    /\ Len(campaigns) = 2
    /\ Len(contacts) >= 1
    /\ requested[1] = <<1, 1>>
    /\ requested[2] = <<1>>
    /\ dispatched[1] = 2
    /\ dispatched[2] = 2
    /\ EmailRegexTest(contacts[1].email)

\* The upload route accepts a file in this step
AcceptedUpload == Len(uploadLog') = Len(uploadLog) + 1

\* C13: an accepted upload of R rows appends R contacts, one per row in row
\* order, and answers total = R and valid + invalid = total.
C13_OneContactPerRow ==
    [][AcceptedUpload =>
         LET rows == uploadLog'[Len(uploadLog')].rows
             first == Len(contacts)
         IN  /\ Len(contacts') = first + Len(rows)
             /\ \A k \in 1..first : contacts'[k] = contacts[k]
             /\ \A i \in 1..Len(rows) :
                  /\ contacts'[first + i].name = rows[i].name
                  /\ contacts'[first + i].email = rows[i].email
                  /\ mailResp'.contactIds[i] = first + i
             /\ mailResp'.code = 200
             /\ Len(mailResp'.contactIds) = Len(rows)
             /\ mailResp'.total = Len(rows)
             /\ mailResp'.valid + mailResp'.invalid = mailResp'.total]_vars

\* A second file was accepted, one row with a malformed email, after a first
\* one whose row was well formed
C13_Witness ==
    /\ Len(uploadLog) = 2
    /\ mailResp.route = "upload"
    /\ mailResp.code = 200
    /\ mailResp.valid = 0
    /\ mailResp.invalid = 1
    /\ Len(contacts) = 2
    /\ EmailRegexTest(contacts[1].email)
    /\ ~EmailRegexTest(contacts[2].email)

\* The upload route rejects a request in this step
RejectedUpload == mailResp' = UploadRejected

\* C14: a rejected upload leaves the contacts as they were; an accepted upload
\* stores a contact for every row, the rows with a malformed email included,
\* and reports exactly those rows as invalid.
C14_RejectedAddsNothingMalformedRowsKept ==
    [][/\ RejectedUpload => (contacts' = contacts /\ uploadLog' = uploadLog)
       /\ AcceptedUpload =>
            LET upload == uploadLog'[Len(uploadLog')]
                first == Len(contacts)
            IN  /\ mailResp'.code = 200
                /\ Len(contacts') = first + Len(upload.rows)
                /\ \A i \in 1..Len(upload.rows) :
                     /\ contacts'[first + i].email = upload.rows[i].email
                     /\ upload.isValid[i] = EmailRegexTest(upload.rows[i].email)
                /\ mailResp'.invalid =
                     Cardinality({i \in 1..Len(upload.rows) :
                                    ~EmailRegexTest(upload.rows[i].email)})]_vars

\* A file whose second row has a malformed email was accepted, and a later
\* upload was rejected
C14_Witness ==
    /\ mailResp = UploadRejected
    /\ Len(uploadLog) = 1
    /\ Len(uploadLog[1].rows) = 2
    /\ uploadLog[1].rows[2].email = NoTldEmail
    /\ ~uploadLog[1].isValid[2]
    /\ Len(contacts) = 2
    /\ contacts[2].email = NoTldEmail

----------------------------------------------------------------------------
(* Properties of the image job tracker *)

Terminal(task) == task.status \in {"COMPLETED", "FAILED"}

\* C1 (as claimed): once a job's stored status is COMPLETED or FAILED, no step
\* changes its stored status, asset URL or error text.
C1_TerminalIsFinal ==
    [][\A t \in 1..Len(imageTaskCache) :
         Terminal(imageTaskCache[t]) =>
            /\ imageTaskCache'[t].status = imageTaskCache[t].status
            /\ imageTaskCache'[t].imageUrl = imageTaskCache[t].imageUrl
            /\ imageTaskCache'[t].error = imageTaskCache[t].error]_vars

\* C2 (as claimed): for every job, prompt enhancement and image submission
\* are each performed at most once.
C2_InitAtMostOnce ==
    \A t \in 1..Len(initCalls) :
        initCalls[t].enhance <= 1 /\ initCalls[t].submit <= 1

UnknownPolled == imgResp.route = "status" /\ imgResp.taskId = UnknownId

\* C7 (as claimed): a poll for an id no submission returned always yields
\* not-found.
C7_UnknownIsNotFound == UnknownPolled => imgResp.code = 404

\* C7 (amended): a poll for an id no submission returned yields not-found when
\* both provider credentials are configured and service-unavailable
\* otherwise, never a job status, and changes no job record and starts no
\* provider call.
C7_UnknownPollRejected ==
    [][(imgResp' # imgResp /\ imgResp'.route = "status"
            /\ imgResp'.taskId = UnknownId) =>
         /\ imgResp'.code = IF freepikKey /\ openrouterKey THEN 404 ELSE 503
         /\ imgResp'.status \in {"ERROR", "undefined"}
         /\ imgResp'.imageUrl = "undefined"
         /\ imageTaskCache' = imageTaskCache
         /\ polls' = polls
         /\ initCalls' = initCalls]_vars

\* An unknown id was polled while a job exists, and was answered not-found
C7_Witness ==
    /\ UnknownPolled
    /\ imgResp.code = 404
    /\ Len(imageTaskCache) >= 1

\* The start route accepts a submission in this step
AcceptedSubmission ==
    /\ imgResp' # imgResp
    /\ imgResp'.route = "start"
    /\ imgResp'.code = 200

\* C12: an accepted submission starts no provider call, appends one record
\* with status CREATED, no enhanced prompt and no provider handle, and leaves
\* every other record as it was.
C12_SubmissionOnlyStores ==
    [][AcceptedSubmission =>
         /\ polls' = polls
         /\ initCalls' = Append(initCalls, [enhance |-> 0, submit |-> 0])
         /\ Len(imageTaskCache') = Len(imageTaskCache) + 1
         /\ imgResp'.taskId = Len(imageTaskCache')
         /\ \A t \in 1..Len(imageTaskCache) : imageTaskCache'[t] = imageTaskCache[t]
         /\ imageTaskCache'[Len(imageTaskCache')].status = "CREATED"
         /\ imageTaskCache'[Len(imageTaskCache')].enhancedPrompt = Undefined
         /\ imageTaskCache'[Len(imageTaskCache')].freepikTaskId = Undefined]_vars

\* A second job was accepted while the first holds its provider handle
C12_Witness ==
    /\ Len(imageTaskCache) = 2
    /\ imgResp.route = "start"
    /\ imgResp.code = 200
    /\ imgResp.taskId = 2
    /\ HasHandle(imageTaskCache[1])
    /\ imageTaskCache[2].status = "CREATED"
    /\ initCalls[2].enhance = 0

\* Handler r receives the provider's rate-limit signal in this step
RateLimitedStep(r) ==
    /\ polls[r].pc = "status"
    /\ polls'[r].pc = "idle"
    /\ pollLog'.answer # Undefined
    /\ pollLog'.answer[1].http = 429

\* status: 'RATE_LIMITED' with the provider's Retry-After, or 30 without one
RateLimitedResponse(response, answer) ==
    /\ response.status = "RATE_LIMITED"
    /\ response.imageUrl = "undefined"
    /\ response.retryAfter =
         IF answer.retryAfter = "undefined" THEN "30" ELSE answer.retryAfter

SameStoredJob(a, b) ==
    /\ a.status = b.status
    /\ a.freepikTaskId = b.freepikTaskId
    /\ a.imageUrl = b.imageUrl
    /\ a.error = b.error

FirstSuspended(q, kinds) ==
    /\ polls[q].pc \in kinds
    /\ pollLog.entry[q] # Undefined
    /\ pollLog.entry[q][1].status = "CREATED"

\* In this step handler r begins a poll of the job that handler q is working on
SecondArrives(q, r) ==
    /\ q # r
    /\ polls[r].pc = "idle"
    /\ \A p \in 1..MaxInFlight : p # r => polls'[p] = polls[p]
    /\ pollLog'.entry[r] = Some(imageTaskCache[polls[q].taskId])
    /\ \/ imgResp'.route = "status" /\ imgResp'.taskId = polls[q].taskId
       \/ polls'[r].pc # "idle" /\ polls'[r].taskId = polls[q].taskId

\* The second poll finds INITIALIZING, calls no provider, changes no job and
\* reports INITIALIZING; the first poll is the one that called the providers
SecondStandsBy(q, r) ==
    /\ imageTaskCache[polls[q].taskId].status = "INITIALIZING"
    /\ polls'[r].pc = "idle"
    /\ initCalls' = initCalls
    /\ initCalls[polls[q].taskId].enhance >= 1
    /\ imageTaskCache' = imageTaskCache
    /\ imgResp'.code = 200
    /\ imgResp'.status = "INITIALIZING"

InitFailureStep(r) ==
    /\ polls[r].pc \in {"enhance", "submit"}
    /\ polls'[r].pc = "idle"

\* The job's initialization failed before any provider handle was stored
FailedInInit(task) == task.status = "FAILED" /\ ~HasHandle(task)

\* In this step handler r begins a poll of job t
PollArrives(r, t) ==
    /\ polls[r].pc = "idle"
    /\ \A p \in 1..MaxInFlight : p # r => polls'[p] = polls[p]
    /\ pollLog'.entry[r] = Some(imageTaskCache[t])
    /\ \/ imgResp'.route = "status" /\ imgResp'.taskId = t
       \/ polls'[r].pc # "idle" /\ polls'[r].taskId = t

\* C20: a failing initialization stores FAILED with the error, which the same
\* poll returns without a status query; every later poll of that job returns
\* FAILED with the stored error, calls no provider and changes nothing.
C20_InitFailureIsFinal ==
    [][/\ \A r \in 1..MaxInFlight :
            InitFailureStep(r) =>
                LET task == imageTaskCache'[polls[r].taskId]
                IN  /\ task.status = "FAILED"
                    /\ task.error # "undefined"
                    /\ task.freepikTaskId = imageTaskCache[polls[r].taskId].freepikTaskId
                    /\ imgResp' = ImgResponse("status", 200, polls[r].taskId, "FAILED",
                                      "undefined", task.error, "undefined")
                    /\ initCalls' = initCalls
                    /\ pollLog' = pollLog
       /\ \A r \in 1..MaxInFlight, t \in 1..Len(imageTaskCache) :
            (FailedInInit(imageTaskCache[t]) /\ PollArrives(r, t)) =>
                /\ polls'[r].pc = "idle"
                /\ imageTaskCache[t].error # "undefined"
                /\ imgResp' = ImgResponse("status", 200, t, "FAILED",
                                  imageTaskCache[t].imageUrl, imageTaskCache[t].error,
                                  "undefined")
                /\ imageTaskCache' = imageTaskCache
                /\ initCalls' = initCalls]_vars

\* The submission returned no provider handle, and a later poll, which found
\* the job FAILED, has been answered FAILED with that error
C20_Witness ==
    /\ Len(imageTaskCache) >= 1
    /\ FailedInInit(imageTaskCache[1])
    /\ imageTaskCache[1].error = "No task ID received from Freepik API"
    /\ initCalls[1] = [enhance |-> 1, submit |-> 1]
    /\ polls[1].pc = "idle"
    /\ pollLog.entry[1] = Some(imageTaskCache[1])
    /\ pollLog.answer = Undefined
    /\ imgResp.route = "status"
    /\ imgResp.status = "FAILED"
    /\ imgResp.error = imageTaskCache[1].error

\* In this step handler r receives the provider's answer to its status query
\* for a job that has a provider handle
StatusAnswered(r) ==
    /\ polls[r].pc = "status"
    /\ polls'[r].pc = "idle"
    /\ HasHandle(imageTaskCache[polls[r].taskId])
    /\ pollLog'.answer # Undefined

\* The provider reports the task COMPLETED
ReportsCompleted(answer) == answer.http = 200 /\ answer.status = "COMPLETED"

\* C21: on a poll of a job with a provider handle, a report of COMPLETED with
\* at least one asset stores the first asset as the URL with status COMPLETED
\* and returns it; a report of COMPLETED with no asset stores status FAILED
\* with the 'completed but no images' error and writes no URL.
C21_CompletedStoresFirstAssetOrFails ==
    [][\A r \in 1..MaxInFlight :
         (StatusAnswered(r) /\ ReportsCompleted(pollLog'.answer[1])) =>
            LET answer == pollLog'.answer[1]
                before == imageTaskCache[polls[r].taskId]
                after == imageTaskCache'[polls[r].taskId]
            IN  IF Len(answer.generated) >= 1
                THEN /\ after.imageUrl = answer.generated[1]
                     /\ after.status = "COMPLETED"
                     /\ imgResp'.status = "COMPLETED"
                     /\ imgResp'.imageUrl = answer.generated[1]
                ELSE /\ after.status = "FAILED"
                     /\ after.error = "Task completed but no images were generated"
                     /\ after.imageUrl = before.imageUrl
                     /\ imgResp'.status = "FAILED"
                     /\ imgResp'.error = after.error
                     /\ imgResp'.imageUrl = "undefined"]_vars

\* A report of COMPLETED with two assets has been handled and left the first
\* asset as the URL of the job
C21_Witness ==
    /\ Len(imageTaskCache) >= 1
    /\ HasHandle(imageTaskCache[1])
    /\ pollLog.answer # Undefined
    /\ ReportsCompleted(pollLog.answer[1])
    /\ Len(pollLog.answer[1].generated) = 2
    /\ imageTaskCache[1].status = "COMPLETED"
    /\ imageTaskCache[1].imageUrl = "url1"
    /\ imgResp.imageUrl = "url1"

\* C25 (as claimed): a submitted job that keeps being polled, with a provider
\* that reports in-progress statuses until it reports the task finished,
\* eventually has the stored status COMPLETED or FAILED.
C25_PolledJobBecomesTerminal ==
    \A t \in 1..MaxTasks :
        (t <= Len(imageTaskCache))
            ~> (t <= Len(imageTaskCache) /\ Terminal(imageTaskCache[t]))

\* C28 (as claimed): in every reachable state a job stored as COMPLETED has
\* an asset URL and a job stored as FAILED has an error text.
C28_TerminalJobHasItsPayload ==
    \A t \in 1..Len(imageTaskCache) :
        /\ imageTaskCache[t].status = "COMPLETED" => imageTaskCache[t].imageUrl # "undefined"
        /\ imageTaskCache[t].status = "FAILED" => imageTaskCache[t].error # "undefined"

\* The provider's status query failed with an error that is no rate limit
QueryFailed(answer) == answer.http # 200 /\ answer.http # 429

\* C30 (as claimed): for a job that already has a provider handle when the
\* poll begins, a poll whose provider status query fails with an error other
\* than the rate limit answers with an internal error and leaves the stored
\* job as the poll found it.
C30_FailedQueryKeepsJob ==
    [][\A r \in 1..MaxInFlight :
         (/\ StatusAnswered(r)
          /\ QueryFailed(pollLog'.answer[1])
          /\ pollLog.entry[r] # Undefined
          /\ HasHandle(pollLog.entry[r][1])) =>
            /\ imgResp'.code = 500
            /\ imgResp'.status = "ERROR"
            /\ imageTaskCache'[polls[r].taskId] = pollLog.entry[r][1]]_vars

----------------------------------------------------------------------------
(* Properties of the message generator and of the placeholder substitution *)

\* C5 (as claimed): the stored text, marker included, is no longer than the
\* channel cap, and the stored characterCount is its length.
C5_WithinCap ==
    \A i \in 1..Len(aiMessages) :
        /\ Len(aiMessages[i].generatedMessage) <= Limit(aiMessages[i].messageType)
        /\ aiMessages[i].characterCount = Len(aiMessages[i].generatedMessage)

\* C6 (as claimed): when the template contains {name}, the personalized text
\* contains no {name}.
C6_NoTokenLeft ==
    (merge.result # Undefined /\ HasNameToken(merge.template)) =>
        ~HasNameToken(merge.result[1])

\* The call-to-action probe of a 200 response, taken on its text when the
\* response reports none
CallToActionProbe(response) ==
    IF "hasCTA" \in DOMAIN response.compliance
    THEN response.compliance.hasCTA
    ELSE HasCTA(response.aiMessage.generatedMessage)

\* C15 (as claimed): the returned and the stored compliance flag are true
\* exactly when the opt-out, business name, call-to-action, location and
\* length probes are all true.
C15_FlagIsAndOfFiveProbes ==
    msgResp.code = 200 =>
        LET all == /\ msgResp.compliance.hasOptOut
                   /\ msgResp.compliance.hasBusinessName
                   /\ CallToActionProbe(msgResp)
                   /\ msgResp.compliance.hasLocation
                   /\ msgResp.compliance.withinLimit
        IN  /\ msgResp.aiMessage.isCompliant = all
            /\ aiMessages[msgResp.id].isCompliant = all

----------------------------------------------------------------------------
(* Properties of the client polling loop *)

\* C4: while the last answer the loop received is the server's rate-limited
\* response, the loop is asleep for the suggested retry delay on the same job;
\* it has not ended
C4_RateLimitedSleepsAndResumes ==
    (client.pc # "waiting" /\ imgResp.route = "status"
        /\ imgResp.status = "RATE_LIMITED" /\ client.last # "none")
    => /\ client.pc = "sleeping"
       /\ client.slept = ParseInt(imgResp.retryAfter) * 1000
       /\ client.taskId = imgResp.taskId

\* The loop runs: a request is due or in flight, or the timer is set
Polling == client.pc \in {"request", "waiting", "sleeping"}

\* No request is issued once 40 attempts are counted
AttemptsBounded ==
    /\ client.attempts <= MaxAttempts
    /\ Polling => client.attempts < MaxAttempts

CompletedWithUrl(response) ==
    response.status = "COMPLETED" /\ response.imageUrl # "undefined"

StopsWithSuccess == client'.pc = "idle" /\ client'.toast = "Image Generated"
StopsWithError == client'.pc = "idle" /\ client'.toast = "Generation Failed"

\* The timer fires: the loop goes on below 40 attempts and gives up at 40
TimeoutRule ==
    (client.pc = "sleeping" /\ client'.pc # "sleeping") =>
        /\ client'.attempts = client.attempts + 1
        /\ IF client'.attempts < MaxAttempts
             THEN client'.pc = "request"
             ELSE StopsWithError /\ client'.last = "timeout"

====
